---- MODULE Spec2Model ----
(***************************************************************************)
(* Model of claude-clear: clean_claude_json (src/src/cleaner.py) and the   *)
(* two command-line entry points (src/bin/claude-clear.py, cleaner.main).  *)
(*                                                                         *)
(* JSON values are records [k, s]: k is the kind, s a sequence of strings  *)
(* holding the payload (scalar token, array items, or alternating key and  *)
(* item of an object).  The configuration document is a record holding the *)
(* root's fields, the "projects" mapping and the project entries.          *)
(***************************************************************************)
EXTENDS Integers, Sequences, FiniteSets, TLC

\* ------------------------------------------------------------------ values

JNull == [k |-> "null", s |-> <<>>]
JFalse == [k |-> "bool", s |-> <<"false">>]
JTrue == [k |-> "bool", s |-> <<"true">>]
JZero == [k |-> "num", s |-> <<"0">>]
JSeven == [k |-> "num", s |-> <<"7">>]
JEmptyStr == [k |-> "str", s |-> <<"">>]
JHi == [k |-> "str", s |-> <<"hi">>]
JEmptyArr == [k |-> "arr", s |-> <<>>]
JArr12 == [k |-> "arr", s |-> <<"1", "2">>]
JEmptyObj == [k |-> "obj", s |-> <<>>]
JObjX == [k |-> "obj", s |-> <<"x", "1">>]

FalsyValues == {JNull, JFalse, JZero, JEmptyStr, JEmptyArr, JEmptyObj}
TruthyValues == {JTrue, JSeven, JHi, JArr12, JObjX}
Values == FalsyValues \cup TruthyValues

\* Variant: the test is `is not None` instead of truthiness.
Truthy_NotNone(v) == v.k # "null"

\* Python truth value of a parsed JSON value (the `and project[field]` tests).
Truthy(v) ==
  CASE v.k = "null" -> FALSE
    [] v.k = "bool" -> v.s[1] = "true"
    [] v.k = "num" -> v.s[1] # "0"
    [] v.k = "str" -> v.s[1] # ""
    [] OTHER -> Len(v.s) > 0

IsList(v) == v.k = "arr"
IsDict(v) == v.k = "obj"

\* Keys of an object value (odd positions of its payload).
ObjKeys(v) == IF IsDict(v) THEN {v.s[2 * i - 1] : i \in 1..(Len(v.s) \div 2)} ELSE {}
ObjGet(v, key) == v.s[2 * (CHOOSE i \in 1..(Len(v.s) \div 2) : v.s[2 * i - 1] = key)]

RECURSIVE SumLen(_)
SumLen(toks) == IF toks = <<>> THEN 0 ELSE Len(Head(toks)) + SumLen(Tail(toks))

RECURSIVE SumFn(_)
SumFn(g) ==
  IF DOMAIN g = {} THEN 0
  ELSE LET key == CHOOSE x \in DOMAIN g : TRUE
       IN g[key] + SumFn([j \in DOMAIN g \ {key} |-> g[j]])

\* len(json.dumps(v)): default separators ", " and ": ".
DumpsLen(v) ==
  CASE v.k = "null" -> 4
    [] v.k \in {"bool", "num"} -> Len(v.s[1])
    [] v.k = "str" -> Len(v.s[1]) + 2
    [] v.k = "arr" ->
         IF Len(v.s) = 0 THEN 2 ELSE 2 + SumLen(v.s) + 2 * (Len(v.s) - 1)
    [] OTHER ->
         LET n == Len(v.s) \div 2
         IN IF n = 0 THEN 2 ELSE 2 + SumLen(v.s) + 4 * n + 2 * (n - 1)

\* Length of one "key": value member line of json.dump(..., indent=2) at depth d.
MemberLen(key, vlen, d) == 1 + 2 * d + Len(key) + 2 + 2 + vlen

\* Length of a non-empty container of json.dump(..., indent=2) closing at depth d.
BlockLen(n, members, d) == 1 + members + (n - 1) + 1 + 2 * d + 1

\* Length of json.dump(v, indent=2) for a value opening at depth d.
IndentLen(v, d) ==
  CASE v.k = "arr" ->
         IF Len(v.s) = 0 THEN 2
         ELSE BlockLen(Len(v.s), SumLen(v.s) + Len(v.s) * (1 + 2 * (d + 1)), d)
    [] v.k = "obj" ->
         LET n == Len(v.s) \div 2
         IN IF n = 0 THEN 2
            ELSE BlockLen(n, SumLen(v.s) + n * (1 + 2 * (d + 1) + 4), d)
    [] OTHER -> DumpsLen(v)

\* ---------------------------------------------------------------- documents

EmptyMap == [x \in {} |-> JNull]

\* A project entry: a dict of fields (d = TRUE) or any other JSON value.
DictEntry(f) == [d |-> TRUE, v |-> JNull, f |-> f]
ValueEntry(v) == [d |-> FALSE, v |-> v, f |-> EmptyMap]

\* A document whose root is an object.  pk tells whether "projects" is
\* absent, a dict of entries (projects) or another value (pv).
ObjectDoc(top, pk, pv, projects) ==
  [rk |-> "obj", rv |-> JNull, top |-> top, pk |-> pk, pv |-> pv, projects |-> projects]

\* A document whose root is not an object (still parseable JSON).
ValueDoc(v) ==
  [rk |-> "val", rv |-> v, top |-> EmptyMap, pk |-> "absent", pv |-> JNull,
   projects |-> EmptyMap]

EntryIndentLen(e, d) ==
  IF ~e.d THEN IndentLen(e.v, d)
  ELSE LET n == Cardinality(DOMAIN e.f)
       IN IF n = 0 THEN 2
          ELSE BlockLen(n, SumFn([key \in DOMAIN e.f |->
                                    MemberLen(key, IndentLen(e.f[key], d + 1), d + 1)]), d)

ProjectsIndentLen(doc, d) ==
  IF doc.pk = "val" THEN IndentLen(doc.pv, d)
  ELSE LET n == Cardinality(DOMAIN doc.projects)
       IN IF n = 0 THEN 2
          ELSE BlockLen(n, SumFn([p \in DOMAIN doc.projects |->
                                    MemberLen(p, EntryIndentLen(doc.projects[p], d + 1), d + 1)]), d)

\* Size in bytes of the file json.dump(data, f, indent=2) writes.
DumpFileLen(doc) ==
  IF doc.rk = "val" THEN IndentLen(doc.rv, 0)
  ELSE LET np == IF doc.pk = "absent" THEN 0 ELSE 1
           n == Cardinality(DOMAIN doc.top) + np
           tops == SumFn([key \in DOMAIN doc.top |->
                            MemberLen(key, IndentLen(doc.top[key], 1), 1)])
           proj == IF np = 0 THEN 0
                   ELSE MemberLen("projects", ProjectsIndentLen(doc, 1), 1)
       IN IF n = 0 THEN 2 ELSE BlockLen(n, tops + proj, 0)

\* ------------------------------------------------------------- sanitization

chat_fields ==
  <<"conversation", "messages", "chat", "conversations",
    "messageHistory", "chatHistory", "contextCache">>

top_fields ==
  <<"globalHistory", "globalMessages", "conversations",
    "recentConversations", "conversationCache", "chatCache">>

ZeroReport == [projects_cleaned |-> 0, top_cleared |-> 0, history_size_total |-> 0]

\* Variant: the test is `field in m` alone.
FieldGate_PresenceOnly(m, field) == field \in DOMAIN m

\* `field in m and m[field]`
FieldGate(m, field) == field \in DOMAIN m /\ Truthy(m[field])

\* `del m[field]`
RemoveKey(m, field) == [x \in DOMAIN m \ {field} |-> m[x]]

\* Variant: every cleared field is deleted, whatever its type.
ClearField_AlwaysDelete(m, field) == RemoveKey(m, field)

\* Variant: a scalar field empties the mapping that holds it (`m.clear()`).
ClearField_WholeMap(m, field) ==
  IF IsList(m[field]) THEN [m EXCEPT ![field] = JEmptyArr]
  ELSE IF IsDict(m[field]) THEN [m EXCEPT ![field] = JEmptyObj]
  ELSE EmptyMap

\* The isinstance branches: a list becomes [], a dict {}, anything else is deleted.
ClearField(m, field) ==
  IF IsList(m[field]) THEN [m EXCEPT ![field] = JEmptyArr]
  ELSE IF IsDict(m[field]) THEN [m EXCEPT ![field] = JEmptyObj]
  ELSE RemoveKey(m, field)

\* `hist_size > 1024 * 1024`: a history above this size is reported as large.
LargeHistoryBytes == 1024 * 1024

\* Whether len(v) is defined: it is not for a number or a boolean.
HasLen(v) == v.k \in {"str", "arr", "obj"}

\* The notice of a history that is not large prints len(project['history']),
\* which raises TypeError for a number or a boolean.
HistoryRaises(v) == DumpsLen(v) <= LargeHistoryBytes /\ ~HasLen(v)

\* Variant: the count grows by the number of history entries.
CleanHistory_CountEntries(acc, dry_run) ==
  IF FieldGate(acc.m, "history")
  THEN [m |-> IF dry_run \/ HistoryRaises(acc.m["history"]) THEN acc.m
              ELSE [acc.m EXCEPT !["history"] = JEmptyArr],
        hist |-> acc.hist + Len(acc.m["history"].s),
        size |-> acc.size + DumpsLen(acc.m["history"]),
        exc |-> HistoryRaises(acc.m["history"])]
  ELSE acc

\* `if 'history' in project and project['history']:` ... `project['history'] = []`;
\* the exception of the notice comes before the assignment.
CleanHistory(acc, dry_run) ==
  IF FieldGate(acc.m, "history")
  THEN [m |-> IF dry_run \/ HistoryRaises(acc.m["history"]) THEN acc.m
              ELSE [acc.m EXCEPT !["history"] = JEmptyArr],
        hist |-> acc.hist + 1,
        size |-> acc.size + DumpsLen(acc.m["history"]),
        exc |-> HistoryRaises(acc.m["history"])]
  ELSE acc

\* `for field in chat_fields:` over one project, from index i on.
RECURSIVE CleanProjectFields(_, _, _)
CleanProjectFields(acc, i, dry_run) ==
  IF i > Len(chat_fields) THEN acc
  ELSE LET field == chat_fields[i]
           field_size == DumpsLen(acc.m[field])
           hit == FieldGate(acc.m, field) /\ field_size > 0
           step == IF hit
                   THEN [acc EXCEPT !.m = IF dry_run THEN acc.m ELSE ClearField(acc.m, field),
                                    !.size = acc.size + field_size]
                   ELSE acc
       IN CleanProjectFields(step, i + 1, dry_run)

\* The chat fields of a project are reached unless its history raised.
CleanFieldsAfterHistory(acc, dry_run) ==
  IF acc.exc THEN acc ELSE CleanProjectFields(acc, 1, dry_run)

ProjectResult(acc) ==
  [entry |-> DictEntry(acc.m), hist |-> acc.hist, size |-> acc.size, exc |-> acc.exc]

\* The body of the project loop for one entry: non-dict entries are skipped.
CleanProject(project, dry_run) ==
  IF ~project.d THEN [entry |-> project, hist |-> 0, size |-> 0, exc |-> FALSE]
  ELSE ProjectResult(
         CleanFieldsAfterHistory(
           CleanHistory([m |-> project.f, hist |-> 0, size |-> 0, exc |-> FALSE], dry_run),
           dry_run))

\* The counters and the projects after one more entry.
AddProject(acc, proj_id, r) ==
  [projects |-> [acc.projects EXCEPT ![proj_id] = r.entry],
   hist |-> acc.hist + r.hist,
   size |-> acc.size + r.size,
   exc |-> r.exc]

\* `for proj_id, project in data['projects'].items():` over the entries in
\* todo; an exception ends the loop.
RECURSIVE CleanProjects(_, _, _)
CleanProjects(acc, todo, dry_run) ==
  IF todo = {} \/ acc.exc THEN acc
  ELSE LET proj_id == CHOOSE p \in todo : TRUE
       IN CleanProjects(
            AddProject(acc, proj_id, CleanProject(acc.projects[proj_id], dry_run)),
            todo \ {proj_id}, dry_run)

\* `for field in top_fields:` over the root, from index i on.
RECURSIVE CleanTopFields(_, _, _)
CleanTopFields(acc, i, dry_run) ==
  IF i > Len(top_fields) THEN acc
  ELSE LET field == top_fields[i]
           field_size == DumpsLen(acc.m[field])
           hit == FieldGate(acc.m, field) /\ field_size > 0
           step == IF hit
                   THEN [m |-> IF dry_run THEN acc.m ELSE ClearField(acc.m, field),
                         size |-> acc.size + field_size,
                         top_cleared |-> acc.top_cleared + 1]
                   ELSE acc
       IN CleanTopFields(step, i + 1, dry_run)

Quote(name) == "\"" \o name \o "\""

\* `name in data` when data is a list of scalars.
InList(v, name) == \E i \in 1..Len(v.s) : v.s[i] = Quote(name)

\* Whether the root makes the loops raise TypeError: it is not an object and
\* `'projects' in data` / `data[...]` is not defined for it.
RaisesTypeError(data) ==
  /\ data.rk = "val"
  /\ \/ ~IsList(data.rv)
     \/ InList(data.rv, "projects")
     \/ \E i \in 1..Len(top_fields) : InList(data.rv, top_fields[i])

\* `if 'projects' in data and isinstance(data['projects'], dict):` and the loop.
CleanAllProjects(data, dry_run) ==
  IF data.pk = "dict"
  THEN CleanProjects([projects |-> data.projects, hist |-> 0, size |-> 0, exc |-> FALSE],
                     DOMAIN data.projects, dry_run)
  ELSE [projects |-> data.projects, hist |-> 0, size |-> 0, exc |-> FALSE]

\* The top-level loop, reached unless the project loop raised.
CleanAllTopFields(data, p, dry_run) ==
  IF p.exc THEN [m |-> data.top, size |-> p.size, top_cleared |-> 0]
  ELSE CleanTopFields([m |-> data.top, size |-> p.size, top_cleared |-> 0], 1, dry_run)

\* The document and the counters after both loops.
CleanResult(data, p, t) ==
  [exc |-> p.exc,
   data |-> [data EXCEPT !.projects = p.projects, !.top = t.m],
   report |-> [projects_cleaned |-> p.hist,
               top_cleared |-> t.top_cleared,
               history_size_total |-> t.size]]

CleanObject(data, p, dry_run) == CleanResult(data, p, CleanAllTopFields(data, p, dry_run))

\* Counting and clearing over the loaded document; exc tells that TypeError
\* was raised on the way.
CleanData(data, dry_run) ==
  IF RaisesTypeError(data) THEN [exc |-> TRUE, data |-> data, report |-> ZeroReport]
  ELSE IF data.rk = "val" THEN [exc |-> FALSE, data |-> data, report |-> ZeroReport]
  ELSE CleanObject(data, CleanAllProjects(data, dry_run), dry_run)

\* -------------------------------------------------------------- input space

MaxRuns == 2
MaxTime == 1

\* `1024 * 100`: below this size the file counts as already small.
SmallFileBytes == 1024 * 100

Field1(key, v) == [x \in {key} |-> v]
Field2(k1, v1, k2, v2) == [x \in {k1, k2} |-> IF x = k1 THEN v1 ELSE v2]
Field3(k1, v1, k2, v2, k3, v3) ==
  [x \in {k1, k2, k3} |-> IF x = k1 THEN v1 ELSE IF x = k2 THEN v2 ELSE v3]

\* Documents with one root field.
RootKeys == {"globalHistory", "conversations", "other", "messages"}
RootDocs == {ObjectDoc(Field1(key, v), "absent", JNull, EmptyMap) : key \in RootKeys, v \in Values}

\* Documents with one project holding one field.
ProjectKeys == {"history", "messages", "conversations", "name", "globalHistory"}
ProjectDocs ==
  {ObjectDoc(EmptyMap, "dict", JNull, Field1("p1", DictEntry(Field1(key, v)))) :
     key \in ProjectKeys, v \in Values}

\* Documents with several root fields and up to two projects.
MixedTops ==
  {EmptyMap,
   Field2("globalHistory", JObjX, "other", JHi),
   Field2("conversations", JHi, "other", JObjX)}
MixedEntries ==
  {ValueEntry(JArr12),
   DictEntry(Field2("history", JArr12, "messages", JArr12)),
   DictEntry(Field2("history", JEmptyArr, "name", JHi)),
   DictEntry(Field3("history", JHi, "messages", JObjX, "contextCache", JSeven))}
ProjectIds == {"p1", "p2"}
MixedProjects == UNION {[ids -> MixedEntries] : ids \in SUBSET ProjectIds}
MixedDocs ==
  {ObjectDoc(top, "dict", JNull, projects) : top \in MixedTops, projects \in MixedProjects}
    \cup {ObjectDoc(top, "val", JArr12, EmptyMap) : top \in MixedTops}

\* Parseable documents whose root is no object.
RootValueDocs ==
  {ValueDoc(JSeven), ValueDoc(JArr12),
   ValueDoc([k |-> "arr", s |-> <<Quote("projects")>>]),
   ValueDoc([k |-> "arr", s |-> <<Quote("chatCache")>>])}

Docs == RootDocs \cup ProjectDocs \cup MixedDocs \cup RootValueDocs

\* ------------------------------------------------------------------- files

NoDoc == ValueDoc(JNull)
MissingFile == [kind |-> "missing", doc |-> NoDoc, fmt |-> "none", size |-> 0]
\* Bytes that are no JSON document (also what an interrupted write leaves).
GarbageFile(size) == [kind |-> "garbage", doc |-> NoDoc, fmt |-> "none", size |-> size]
\* A JSON document in some layout other than the one json.dump(indent=2) writes.
OtherFile(doc, size) == [kind |-> "json", doc |-> doc, fmt |-> "other", size |-> size]
\* The bytes json.dump(data, f, indent=2) writes.
DumpFile(data) == [kind |-> "json", doc |-> data, fmt |-> "indent2", size |-> DumpFileLen(data)]

Files ==
  {MissingFile, GarbageFile(0), GarbageFile(SmallFileBytes)}
    \cup {OtherFile(d, n) : d \in Docs, n \in {SmallFileBytes - 1, SmallFileBytes}}

\* Answers typed at the "Clean anyway? (y/N): " prompt; EndOfInput is a closed stdin.
EndOfInput == "<EOF>"
Responses == {"y", "Y", "yes", "n", "", EndOfInput}

\* str.lower() on the answers above.
Lower(response) == IF response = "Y" THEN "y" ELSE response

\* ------------------------------------------------------------------- state

VARIABLES
  file,          \* ~/.claude.json on disk
  backups,       \* ~/.claude.json.backup.<timestamp> files, by timestamp
  clock,         \* datetime.now() at second resolution
  runs,          \* invocations finished so far
  pc,            \* position of the running invocation
  entry,         \* "bin" (bin/claude-clear.py) or "module" (python cleaner.py)
  dry_run,       \* the --dry-run flag
  original_size, \* st_size read before anything else
  response,      \* the answer given at the prompt
  timestamp,     \* the backup's timestamp
  data,          \* the document in memory
  report,        \* projects_cleaned, top_cleared, history_size_total
  result,        \* "none", "True", "False" or "raise" (uncaught exception)
  exit_status,   \* the process exit status, -1 while running
  start,         \* the file and the backups when the invocation began
  loaded,        \* the document as json.load returned it
  abort,         \* why the invocation stopped early, "none" otherwise
  events,        \* the invocation's reads, writes, prompt and summary, in order
  prev           \* what the previous invocation ended with

vars ==
  <<file, backups, clock, runs, pc, entry, dry_run, original_size, response,
    timestamp, data, report, result, exit_status, start, loaded, abort, events, prev>>

disk == <<file, backups>>
locals ==
  <<entry, dry_run, original_size, response, timestamp, data, report, result,
    exit_status, start, loaded, abort, events>>

NoBackups == [t \in {} |-> MissingFile]
NoStart == [file |-> MissingFile, backups |-> NoBackups]
NoPrev == [real_ok |-> FALSE, out |-> MissingFile, report |-> ZeroReport]

Idle ==
  /\ pc = "idle" /\ entry = "none" /\ dry_run = FALSE /\ original_size = 0
  /\ response = "none" /\ timestamp = 0 /\ data = NoDoc /\ report = ZeroReport
  /\ result = "none" /\ exit_status = -1 /\ start = NoStart /\ loaded = NoDoc
  /\ abort = "none" /\ events = <<>>

Init ==
  /\ file \in Files
  /\ backups = NoBackups
  /\ clock = 0
  /\ runs = 0
  /\ prev = NoPrev
  /\ Idle

\* json.load of a file's bytes.
Parses(f) == f.kind = "json"
Parse(f) == f.doc

\* The invocation ends by `return value` or by an uncaught exception.
Return(value, why) ==
  /\ result' = value
  /\ abort' = why
  /\ pc' = "returned"

\* ----------------------------------------------------------------- actions

\* A second passes.
Tick ==
  /\ pc = "idle"
  /\ clock < MaxTime
  /\ clock' = clock + 1
  /\ UNCHANGED <<file, backups, runs, pc, prev, locals>>

\* The user runs a cleanup: `claude-clear [--dry-run]` or `python cleaner.py [--dry-run]`.
Start(e, d) ==
  /\ pc = "idle"
  /\ runs < MaxRuns
  /\ entry' = e
  /\ dry_run' = d
  /\ start' = [file |-> file, backups |-> backups]
  /\ pc' = IF e = "module" THEN "module_main" ELSE "exists"
  /\ UNCHANGED <<disk, clock, runs, prev, original_size, response, timestamp, data,
                 report, result, exit_status, loaded, abort, events>>

\* cleaner.main: after --version, `logging` (with --debug) or CLAUDE_JSON_PATH
\* is read; the module defines neither, so NameError ends main.
ModuleMain ==
  /\ pc = "module_main"
  /\ Return("raise", "name_error")
  /\ UNCHANGED <<disk, clock, runs, prev, entry, dry_run, original_size, response,
                 timestamp, data, report, exit_status, start, loaded, events>>

\* `if not claude_json_path.exists(): return False`, then `stat().st_size`.
CheckExists ==
  /\ pc = "exists"
  /\ IF file.kind = "missing"
     THEN /\ Return("False", "missing")
          /\ UNCHANGED <<original_size, events>>
     ELSE /\ original_size' = file.size
          /\ events' = Append(events, "stat")
          /\ pc' = "gate"
          /\ UNCHANGED <<result, abort>>
  /\ UNCHANGED <<disk, clock, runs, prev, entry, dry_run, response, timestamp, data,
                 report, exit_status, start, loaded>>

\* Variant: the answer is read and then ignored.
SizeGate_AnyAnswer ==
  /\ pc = "gate"
  /\ IF original_size < SmallFileBytes /\ ~dry_run
     THEN \E answer \in Responses :
            /\ response' = answer
            /\ events' = Append(events, "prompt")
     ELSE UNCHANGED <<response, events>>
  /\ pc' = "load"
  /\ UNCHANGED <<disk, clock, runs, prev, entry, dry_run, original_size, timestamp,
                 data, report, result, exit_status, start, loaded, abort>>

\* `if original_size < 1024 * 100:` ... `input("Clean anyway? (y/N): ")`.
SizeGate ==
  /\ pc = "gate"
  /\ IF original_size < SmallFileBytes /\ ~dry_run
     THEN \E answer \in Responses :
            /\ response' = answer
            /\ events' = Append(events, "prompt")
            /\ IF answer = EndOfInput THEN Return("raise", "eof")
               ELSE IF Lower(answer) # "y" THEN Return("False", "declined")
               ELSE pc' = "load" /\ UNCHANGED <<result, abort>>
     ELSE /\ pc' = "load"
          /\ UNCHANGED <<response, events, result, abort>>
  /\ UNCHANGED <<disk, clock, runs, prev, entry, dry_run, original_size, timestamp,
                 data, report, exit_status, start, loaded>>

\* Variant: the real run goes from the load straight to the clearing.
Load_SkipBackup ==
  /\ pc = "load"
  /\ timestamp' = clock
  /\ events' = Append(events, "read")
  /\ IF Parses(file)
     THEN /\ data' = Parse(file)
          /\ loaded' = Parse(file)
          /\ pc' = "clean"
          /\ UNCHANGED <<result, abort>>
     ELSE /\ Return("False", "invalid")
          /\ UNCHANGED <<data, loaded>>
  /\ UNCHANGED <<disk, clock, runs, prev, entry, dry_run, original_size, response,
                 report, exit_status, start>>

\* `timestamp = datetime.now()...`, then open(..., 'r') and json.load in either branch.
Load ==
  /\ pc = "load"
  /\ timestamp' = clock
  /\ events' = Append(events, "read")
  /\ IF Parses(file)
     THEN /\ data' = Parse(file)
          /\ loaded' = Parse(file)
          /\ pc' = IF dry_run THEN "clean" ELSE "backup"
          /\ UNCHANGED <<result, abort>>
     ELSE /\ Return("False", "invalid")
          /\ UNCHANGED <<data, loaded>>
  /\ UNCHANGED <<disk, clock, runs, prev, entry, dry_run, original_size, response,
                 report, exit_status, start>>

\* Variant: a failed backup write is swallowed and the run goes on.
Backup_SwallowError(outcome) ==
  /\ pc = "backup"
  /\ pc' = "clean"
  /\ IF outcome = "ok"
     THEN /\ backups' = [t \in DOMAIN backups \cup {timestamp} |->
                           IF t = timestamp THEN DumpFile(data) ELSE backups[t]]
          /\ events' = Append(events, "backup")
     ELSE UNCHANGED <<backups, events>>
  /\ UNCHANGED <<file, clock, runs, prev, entry, dry_run, original_size, response,
                 timestamp, data, report, result, exit_status, start, loaded, abort>>

\* `with open(backup_path, 'w') as f: json.dump(data, f, indent=2)`; an OSError
\* is not caught.  outcome: "ok", "denied" (open failed) or "truncated".
Backup(outcome) ==
  /\ pc = "backup"
  /\ CASE outcome = "ok" ->
            /\ backups' = [t \in DOMAIN backups \cup {timestamp} |->
                             IF t = timestamp THEN DumpFile(data) ELSE backups[t]]
            /\ events' = Append(events, "backup")
            /\ pc' = "clean"
            /\ UNCHANGED <<result, abort>>
       [] outcome = "truncated" ->
            /\ backups' = [t \in DOMAIN backups \cup {timestamp} |->
                             IF t = timestamp THEN GarbageFile(0) ELSE backups[t]]
            /\ Return("raise", "backup")
            /\ UNCHANGED events
       [] OTHER ->
            /\ Return("raise", "backup")
            /\ UNCHANGED <<backups, events>>
  /\ UNCHANGED <<file, clock, runs, prev, entry, dry_run, original_size, response,
                 timestamp, data, report, exit_status, start, loaded>>

\* Variant: the dry run does not return after the summary.
Clean_NoDryRunReturn ==
  /\ pc = "clean"
  /\ data' = CleanData(data, dry_run).data
  /\ IF CleanData(data, dry_run).exc
     THEN /\ Return("raise", "type_error")
          /\ UNCHANGED <<report, events>>
     ELSE /\ report' = CleanData(data, dry_run).report
          /\ events' = Append(events, "summary")
          /\ pc' = "write"
          /\ UNCHANGED <<result, abort>>
  /\ UNCHANGED <<disk, clock, runs, prev, entry, dry_run, original_size, response,
                 timestamp, exit_status, start, loaded>>

\* The counting and clearing loops and the summary; `return True` in a dry run.
Clean ==
  /\ pc = "clean"
  /\ data' = CleanData(data, dry_run).data
  /\ IF CleanData(data, dry_run).exc
     THEN /\ Return("raise", "type_error")
          /\ UNCHANGED <<report, events>>
     ELSE /\ report' = CleanData(data, dry_run).report
          /\ events' = Append(events, "summary")
          /\ IF dry_run
             THEN Return("True", "none")
             ELSE pc' = "write" /\ UNCHANGED <<result, abort>>
  /\ UNCHANGED <<disk, clock, runs, prev, entry, dry_run, original_size, response,
                 timestamp, exit_status, start, loaded>>

\* `with open(claude_json_path, 'w') as f: json.dump(data, f, indent=2)`, the
\* size read after it and `return True`.
Write(outcome) ==
  /\ pc = "write"
  /\ CASE outcome = "ok" ->
            /\ file' = DumpFile(data)
            /\ events' = Append(events, "write")
            /\ Return("True", "none")
       [] outcome = "truncated" ->
            /\ file' = GarbageFile(0)
            /\ events' = Append(events, "write")
            /\ Return("raise", "write")
       [] OTHER ->
            /\ Return("raise", "write")
            /\ UNCHANGED <<file, events>>
  /\ UNCHANGED <<backups, clock, runs, prev, entry, dry_run, original_size, response,
                 timestamp, data, report, exit_status, start, loaded>>

\* bin/claude-clear.py drops clean_claude_json's result and falls off main;
\* an uncaught exception ends the interpreter with status 1.
ExitStatus(e, r) == IF r = "raise" THEN 1 ELSE 0

\* The process ends.
Exit ==
  /\ pc = "returned"
  /\ exit_status' = ExitStatus(entry, result)
  /\ pc' = "done"
  /\ UNCHANGED <<disk, clock, runs, prev, entry, dry_run, original_size, response,
                 timestamp, data, report, result, start, loaded, abort, events>>

\* The next invocation starts from a fresh process.
Finish ==
  /\ pc = "done"
  /\ runs' = runs + 1
  /\ prev' = [real_ok |-> result = "True" /\ ~dry_run, out |-> file, report |-> report]
  /\ pc' = "idle" /\ entry' = "none" /\ dry_run' = FALSE /\ original_size' = 0
  /\ response' = "none" /\ timestamp' = 0 /\ data' = NoDoc /\ report' = ZeroReport
  /\ result' = "none" /\ exit_status' = -1 /\ start' = NoStart /\ loaded' = NoDoc
  /\ abort' = "none" /\ events' = <<>>
  /\ UNCHANGED <<disk, clock>>

Next ==
  \/ Tick
  \/ \E e \in {"bin", "module"}, d \in BOOLEAN : Start(e, d)
  \/ ModuleMain
  \/ CheckExists
  \/ SizeGate
  \/ Load
  \/ \E outcome \in {"ok", "denied", "truncated"} : Backup(outcome)
  \/ Clean
  \/ \E outcome \in {"ok", "denied", "truncated"} : Write(outcome)
  \/ Exit
  \/ Finish

Spec == Init /\ [][Next]_vars

\* ------------------------------------------------------------------ claims

Range(q) == {q[i] : i \in DOMAIN q}

\* The two TargetField sets.
ProjectScopeFields == {"history"} \cup Range(chat_fields)
DocumentScopeFields == Range(top_fields)
TargetNames == ProjectScopeFields \cup DocumentScopeFields

Has(e) == \E i \in DOMAIN events : events[i] = e
Precedes(a, b) ==
  \A j \in DOMAIN events : events[j] = b => \E i \in 1..(j - 1) : events[i] = a
Ended == pc \in {"returned", "done"}

\* The counting and clearing loops ran to the summary.
Summarised == Has("summary")
RealCleaned == ~dry_run /\ Summarised

\* The project entries that are objects.
DictEntries(doc) ==
  IF doc.rk = "obj" /\ doc.pk = "dict"
  THEN {p \in DOMAIN doc.projects : doc.projects[p].d}
  ELSE {}

HasTruthy(m, f) == f \in DOMAIN m /\ m[f] \in TruthyValues
SameField(old, new, f) ==
  /\ (f \in DOMAIN old) = (f \in DOMAIN new)
  /\ f \in DOMAIN old => new[f] = old[f]

\* An object became {}, an array [], a scalar lost its key.
TypePreserved(old, new, f) ==
  IF old[f].k = "obj" THEN f \in DOMAIN new /\ new[f] = JEmptyObj
  ELSE IF old[f].k = "arr" THEN f \in DOMAIN new /\ new[f] = JEmptyArr
  ELSE f \notin DOMAIN new

TypePreservedIn(scopeFields, old, new) ==
  \A f \in scopeFields : HasTruthy(old, f) => TypePreserved(old, new, f)

\* C1: a dry run leaves the configuration file byte-identical, creates no
\* backup file, and its report equals the one a real run computes on the
\* same loaded document.
C1_DryRunPurity ==
  dry_run =>
    /\ file = start.file
    /\ backups = start.backups
    /\ ~Has("backup") /\ ~Has("write")
    /\ Summarised => report = CleanData(loaded, FALSE).report
    /\ (Ended /\ Has("read") /\ Parses(start.file)) =>
         (result = "True") = ~CleanData(loaded, FALSE).exc

C1_Witness ==
  /\ dry_run /\ pc = "done" /\ result = "True"
  /\ report.projects_cleaned > 0 /\ report.top_cleared > 0
  /\ CleanData(loaded, FALSE).data # loaded

\* C2 as stated: in a real run every cleared TargetField, history included,
\* becomes {} if it was an object, [] if an array, and loses its key if a scalar.
C2_TypePreservation_WithHistory ==
  RealCleaned =>
    /\ TypePreservedIn(DocumentScopeFields, loaded.top, data.top)
    /\ \A p \in DictEntries(loaded) :
         TypePreservedIn(ProjectScopeFields, loaded.projects[p].f, data.projects[p].f)

\* C2 amended: in a real run every cleared TargetField other than history
\* becomes {} if it was an object, [] if an array, and loses its key if a
\* scalar; a cleared history becomes [] whatever its type was.
C2_TypePreservation ==
  RealCleaned =>
    /\ TypePreservedIn(DocumentScopeFields, loaded.top, data.top)
    /\ \A p \in DictEntries(loaded) :
         /\ TypePreservedIn(Range(chat_fields), loaded.projects[p].f, data.projects[p].f)
         /\ HasTruthy(loaded.projects[p].f, "history") =>
              /\ "history" \in DOMAIN data.projects[p].f
              /\ data.projects[p].f["history"] = JEmptyArr

C2_Witness ==
  /\ RealCleaned /\ pc = "done" /\ result = "True"
  /\ \E p \in DictEntries(loaded) :
       /\ HasTruthy(loaded.projects[p].f, "messages")
       /\ loaded.projects[p].f["messages"].k = "obj"
       /\ HasTruthy(loaded.projects[p].f, "contextCache")
       /\ loaded.projects[p].f["contextCache"].k = "num"
  /\ \E f \in DocumentScopeFields : HasTruthy(loaded.top, f) /\ loaded.top[f].k = "str"

NonEmptyArrayHistory(doc) ==
  {p \in DictEntries(doc) :
     HasTruthy(doc.projects[p].f, "history") /\ doc.projects[p].f["history"].k = "arr"}
TruthyHistory(doc) ==
  {p \in DictEntries(doc) : HasTruthy(doc.projects[p].f, "history")}

\* C3 as stated: after a real run every project entry whose history was a
\* non-empty array has history [], and the number of project histories
\* cleared is the number of those entries.
C3_FieldClearing_ArraysOnly ==
  RealCleaned =>
    /\ \A p \in NonEmptyArrayHistory(loaded) : data.projects[p].f["history"] = JEmptyArr
    /\ report.projects_cleaned = Cardinality(NonEmptyArrayHistory(loaded))

\* C3 amended: after a real run every project entry whose history was a
\* non-empty array has history [], and the number of project histories
\* cleared is the number of entries whose history was present and truthy
\* (of any type), one per entry and none for an absent, null, 0, false or
\* empty history.
C3_FieldClearing ==
  RealCleaned =>
    /\ \A p \in NonEmptyArrayHistory(loaded) : data.projects[p].f["history"] = JEmptyArr
    /\ report.projects_cleaned = Cardinality(TruthyHistory(loaded))

C3_Witness ==
  /\ RealCleaned /\ pc = "done" /\ result = "True"
  /\ Cardinality(NonEmptyArrayHistory(loaded)) = 2
  /\ report.projects_cleaned = 2

\* Keys of m outside both TargetField sets keep their value; none appears.
NonTargetKept(old, new) ==
  /\ \A key \in DOMAIN old \ TargetNames : key \in DOMAIN new /\ new[key] = old[key]
  /\ \A key \in DOMAIN new \ TargetNames : key \in DOMAIN old

\* Keys nested in the values of m, outside both TargetField sets, keep their value.
NestedKept(old, new) ==
  \A key \in DOMAIN old : \A nk \in ObjKeys(old[key]) \ TargetNames :
    /\ key \in DOMAIN new
    /\ nk \in ObjKeys(new[key])
    /\ ObjGet(new[key], nk) = ObjGet(old[key], nk)

\* C4 as stated: after a real run every key outside both TargetField sets,
\* at any depth, is present with the value it had ("projects", the project
\* ids and the keys inside cleared fields included).
C4_Untouched_AnyDepth ==
  RealCleaned =>
    /\ NonTargetKept(loaded.top, data.top)
    /\ NestedKept(loaded.top, data.top)
    /\ data.pk = loaded.pk /\ data.pv = loaded.pv
    /\ data.projects = loaded.projects
    /\ \A p \in DictEntries(loaded) :
         NestedKept(loaded.projects[p].f, data.projects[p].f)

\* C4 amended: after a real run every key outside both TargetField sets
\* that is not inside a cleared TargetField is present with the type it
\* had, and with the value it had apart from the TargetFields cleared
\* inside it (only "projects" and the project entries hold any); no such
\* key is added or removed.
C4_Untouched ==
  RealCleaned =>
    /\ data.rk = loaded.rk /\ data.rv = loaded.rv
    /\ NonTargetKept(loaded.top, data.top)
    /\ data.pk = loaded.pk /\ data.pv = loaded.pv
    /\ DOMAIN data.projects = DOMAIN loaded.projects
    /\ \A p \in DOMAIN loaded.projects :
         /\ data.projects[p].d = loaded.projects[p].d
         /\ data.projects[p].v = loaded.projects[p].v
         /\ NonTargetKept(loaded.projects[p].f, data.projects[p].f)

C4_Witness ==
  /\ RealCleaned /\ pc = "done" /\ result = "True"
  /\ data # loaded
  /\ "other" \in DOMAIN loaded.top /\ loaded.top["other"].k = "obj"
  /\ \E p \in DictEntries(loaded) :
       "name" \in DOMAIN loaded.projects[p].f /\ data.projects[p] = loaded.projects[p]
  /\ \E p \in DictEntries(loaded) : data.projects[p] # loaded.projects[p]

\* C5: when the original file is about to be, or has been, overwritten, the
\* backup file of this invocation was written before, and it parses to the
\* document as loaded.
C5_BackupBeforeWrite ==
  (pc = "write" \/ Has("write")) =>
    /\ Has("backup")
    /\ Precedes("backup", "write")
    /\ timestamp \in DOMAIN backups
    /\ Parses(backups[timestamp])
    /\ Parse(backups[timestamp]) = loaded

C5_Witness ==
  /\ Has("write") /\ pc = "done" /\ result = "True"
  /\ data # loaded
  /\ file.doc = data
  /\ timestamp \in DOMAIN start.backups

\* C6: a real run on the output of a real run changes nothing and reports
\* zero project histories, zero top-level fields and zero bytes.
C6_Idempotence ==
  (prev.real_ok /\ ~dry_run /\ Ended /\ result = "True") =>
    /\ start.file = prev.out
    /\ report = ZeroReport
    /\ data = loaded
    /\ file = start.file

C6_Witness ==
  /\ prev.real_ok /\ prev.report.projects_cleaned > 0 /\ prev.report.top_cleared > 0
  /\ ~dry_run /\ pc = "done" /\ result = "True" /\ Has("write")

\* C7: when the file is missing, does not parse, or the backup cannot be
\* written, the original file is never opened for writing and is what it
\* was; the original is written only in a real run after the backup.
C7_FailureBeforeWrite ==
  /\ abort \in {"missing", "invalid", "backup"} =>
       /\ ~Has("write")
       /\ file = start.file
       /\ result \in {"False", "raise"}
  /\ (pc = "write" \/ Has("write")) => (~dry_run /\ Has("backup"))
  /\ (Ended /\ ~dry_run /\ Has("read") /\ ~Has("backup")) => file = start.file

C7_Witness ==
  /\ pc = "done" /\ abort = "backup" /\ result = "raise"
  /\ timestamp \in DOMAIN backups /\ ~Parses(backups[timestamp])
  /\ Parses(file)

\* C8: the exit status of a cleanup invocation is 0 when clean_claude_json
\* succeeds and 1 when it fails or the user declines.
C8_ExitStatus ==
  pc = "done" => exit_status = (IF result = "True" THEN 0 ELSE 1)

\* C9: a real run on a file under 100 KiB asks for confirmation before the
\* document is loaded, backed up or written; any answer but y (in either
\* case) ends it with no backup created and the file unchanged; a dry run
\* or a file of 100 KiB or more is never asked.
C9_ConfirmationGate ==
  /\ Has("prompt") =>
       /\ ~dry_run /\ original_size < SmallFileBytes
       /\ Precedes("prompt", "read") /\ Precedes("prompt", "backup")
       /\ Precedes("prompt", "write")
  /\ (~dry_run /\ original_size < SmallFileBytes /\ Has("stat")
        /\ (pc \in {"load", "backup", "clean", "write"} \/ Has("read"))) =>
       (Has("prompt") /\ response \in {"y", "Y"})
  /\ (Has("prompt") /\ response \notin {"y", "Y"}) =>
       /\ Ended
       /\ ~Has("read") /\ ~Has("backup") /\ ~Has("write")
       /\ file = start.file /\ backups = start.backups

C9_Witness ==
  /\ pc = "done" /\ Has("prompt") /\ response = "yes"
  /\ Parses(file) /\ CleanData(Parse(file), FALSE).report # ZeroReport

\* Sum of the serialized sizes of the truthy fields of m among scopeFields.
TruthySizes(scopeFields, m) ==
  SumFn([f \in {g \in scopeFields : HasTruthy(m, g)} |-> DumpsLen(m[f])])

\* C10: a TargetField is cleared, counted and sized only when present with
\* a value other than null, 0, false, "", [] and {}; otherwise it stays as
\* it was (absent stays absent) and adds nothing to any count.
C10_TruthinessGate ==
  (Summarised /\ loaded.rk = "obj") =>
    /\ \A f \in DocumentScopeFields :
         ~HasTruthy(loaded.top, f) => SameField(loaded.top, data.top, f)
    /\ \A p \in DictEntries(loaded) : \A f \in ProjectScopeFields :
         ~HasTruthy(loaded.projects[p].f, f) =>
           SameField(loaded.projects[p].f, data.projects[p].f, f)
    /\ report.projects_cleaned = Cardinality(TruthyHistory(loaded))
    /\ report.top_cleared =
         Cardinality({f \in DocumentScopeFields : HasTruthy(loaded.top, f)})
    /\ report.history_size_total =
         TruthySizes(DocumentScopeFields, loaded.top)
           + SumFn([p \in DictEntries(loaded) |->
                      TruthySizes(ProjectScopeFields, loaded.projects[p].f)])

C10_Witness ==
  /\ RealCleaned /\ pc = "done" /\ result = "True"
  /\ \E p \in DictEntries(loaded) :
       /\ "history" \in DOMAIN loaded.projects[p].f
       /\ loaded.projects[p].f["history"] = JEmptyArr
  /\ \E p \in DictEntries(loaded) : HasTruthy(loaded.projects[p].f, "history")
  /\ report.history_size_total > 0

====
